---- MODULE Spec2Model ----
(***************************************************************************)
(* Model of src/main.py: the market-research script.  main() validates the *)
(* environment, run_market_research() builds a two-task sequential Crew    *)
(* and calls kickoff(), save_report() writes the returned report, and a    *)
(* single except clause prints any failure.                                *)
(*                                                                         *)
(* Crew.kickoff() is library code that is not part of the source file; the *)
(* orchestrator and the agent loop behind it are modelled from the         *)
(* description in spec.md sections 4.1 and 4.3.                             *)
(***************************************************************************)
EXTENDS Naturals, Sequences, FiniteSets, TLC

VARIABLES
    env,        \* environment: variable name -> "unset" | "empty" | "set"
    pc,         \* position of main()
    file0,      \* report file as the run found it (never changes)
    file,       \* report file now: [exists, data]
    report,     \* value returned by run_market_research
    exc,        \* kind of the exception in flight / caught ("none": none)
    printed,    \* exception kind the except clause printed ("none": nothing)
    crewState,  \* orchestrator: Pending | Running | Completed | Failed
    taskIndex,  \* task being executed (0: none)
    phase,      \* agent loop of the current task: idle | reasoning | acting
    step,       \* reasoning steps taken by the current task's agent
    outputs,    \* results produced so far, in order: Seq([task, text])
    context,    \* task index -> context handed to it at start
    execLog,    \* task executions started: Seq([task, agent])
    llmCalls,   \* LanguageModelClient calls made
    toolCalls,  \* ToolInvoker calls made
    failedAt    \* index of the failed task (0: none)

vars == <<env, pc, file0, file, report, exc, printed, crewState, taskIndex,
          phase, step, outputs, context, execLog, llmCalls, toolCalls, failedAt>>

crewVars == <<crewState, taskIndex, phase, step, outputs, context, execLog,
              llmCalls, toolCalls, failedAt>>

-----------------------------------------------------------------------------
(* Bounds *)

\* longest text (task result, file content) considered
MaxLen == 2

\* step bound of an agent's reasoning/acting loop
MaxSteps == 2

Chars == {"a", "b"}

Texts == UNION {[1..n -> Chars] : n \in 0..MaxLen}

Prefixes(t) == {SubSeq(t, 1, n) : n \in 0..Len(t)}

NoFile == [exists |-> FALSE, data |-> <<>>]

Files == {NoFile} \cup {[exists |-> TRUE, data |-> t] : t \in Texts}

-----------------------------------------------------------------------------
(* Configuration fixed by the source *)

\* main(): required_vars
required_vars_only_openai == {"OPENAI_API_KEY"}

required_vars == {"OPENAI_API_KEY", "SERPER_API_KEY"}

\* not os.getenv(var): unset and empty both count as missing
missing_vars == {v \in required_vars : env[v] \in {"unset", "empty"}}

\* create_research_analyst(), create_content_officer()
research_analyst ==
    [role |-> "Senior Market Research Analyst",
     tools |-> {"search_tool", "scrape_tool"},
     allow_delegation |-> FALSE]

content_officer ==
    [role |-> "Chief Content Officer",
     tools |-> {},
     allow_delegation |-> FALSE]

\* create_research_task(), create_writing_task()
research_task == [name |-> "research_task", agent |-> research_analyst]

writing_task == [name |-> "writing_task", agent |-> content_officer]

\* Crew(tasks=[research_task, writing_task], ...)
tasks == <<research_task, writing_task>>

\* Crew(..., process=Process.sequential)
process_hierarchical == "hierarchical"

process == "sequential"

\* save_report(): open(filename, 'w', encoding='utf-8')
OpenModeAppend == "a"

OpenMode == "w"

\* str(report) of a report that is already text
Str(t) == t

-----------------------------------------------------------------------------
(* Orchestrator, sequential process *)

\* tasks that have produced no result yet
Pending(outs) == {k \in 1..Len(tasks) : \A i \in 1..Len(outs) : outs[i].task # k}

\* the tasks the process policy may run next: the sequential process runs the
\* list in order; any other policy leaves the choice to a manager
NextTasks(outs) ==
    IF process = "sequential" THEN {Len(outs) + 1} \cap Pending(outs)
    ELSE Pending(outs)

\* the context handed to a task: every result produced so far, in order
ContextOf(outs) == [i \in 1..Len(outs) |-> outs[i].text]

Init ==
    /\ env \in [{"OPENAI_API_KEY", "SERPER_API_KEY"} -> {"unset", "empty", "set"}]
    /\ pc = "validate"
    /\ file0 \in Files
    /\ file = file0
    /\ report = <<>>
    /\ exc = "none"
    /\ printed = "none"
    /\ crewState = "Pending"
    /\ taskIndex = 0
    /\ phase = "idle"
    /\ step = 0
    /\ outputs = <<>>
    /\ context = [k \in 1..Len(tasks) |-> <<>>]
    /\ execLog = <<>>
    /\ llmCalls = 0
    /\ toolCalls = 0
    /\ failedAt = 0

\* main(): the validation gate
Validate ==
    /\ pc = "validate"
    /\ pc' = IF missing_vars # {} THEN "missing" ELSE "kickoff"
    /\ UNCHANGED <<env, file0, file, report, exc, printed>>
    /\ UNCHANGED crewVars

\* run_market_research(): build the crew and call kickoff()
Kickoff ==
    /\ pc = "kickoff"
    /\ crewState = "Pending"
    /\ crewState' = "Running"
    /\ UNCHANGED <<env, pc, file0, file, report, exc, printed>>
    /\ UNCHANGED <<taskIndex, phase, step, outputs, context, execLog,
                   llmCalls, toolCalls, failedAt>>

\* the orchestrator starts the next task, handing it the results so far
StartTask ==
    /\ crewState = "Running"
    /\ phase = "idle"
    /\ Len(outputs) < Len(tasks)
    /\ \E k \in NextTasks(outputs) :
        /\ taskIndex' = k
        /\ context' = [context EXCEPT ![k] = ContextOf(outputs)]
        /\ execLog' = Append(execLog, [task |-> k, agent |-> tasks[k].agent.role])
    /\ phase' = "reasoning"
    /\ step' = 0
    /\ UNCHANGED <<env, pc, file0, file, report, exc, printed>>
    /\ UNCHANGED <<crewState, outputs, llmCalls, toolCalls, failedAt>>

\* a task failure: the orchestrator halts and the exception reaches main()
RaiseFromTask(kind) ==
    /\ crewState' = "Failed"
    /\ failedAt' = taskIndex
    /\ exc' = kind
    /\ phase' = "idle"
    /\ pc' = "except"

\* one reasoning step: a LanguageModelClient call and what it answers
ReasonStep ==
    /\ crewState = "Running"
    /\ phase = "reasoning"
    /\ step < MaxSteps
    /\ llmCalls' = llmCalls + 1
    /\ step' = step + 1
    /\ \/ \E t \in Texts :
            /\ outputs' = Append(outputs, [task |-> taskIndex, text |-> t])
            /\ phase' = "idle"
            /\ UNCHANGED <<pc, exc, crewState, failedAt>>
       \/ /\ tasks[taskIndex].agent.tools # {}
          /\ phase' = "acting"
          /\ UNCHANGED <<pc, exc, crewState, failedAt, outputs>>
       \/ /\ RaiseFromTask("LanguageModelError")
          /\ UNCHANGED outputs
    /\ UNCHANGED <<env, file0, file, report, printed>>
    /\ UNCHANGED <<taskIndex, context, execLog, toolCalls>>

\* a ToolInvoker call: its output or its ToolFailure goes to the transcript
ToolStep ==
    /\ crewState = "Running"
    /\ phase = "acting"
    /\ toolCalls' = toolCalls + 1
    /\ phase' = "reasoning"
    /\ UNCHANGED <<env, pc, file0, file, report, exc, printed>>
    /\ UNCHANGED <<crewState, taskIndex, step, outputs, context, execLog,
                   llmCalls, failedAt>>

\* the step bound is exhausted without a final answer
Exhausted ==
    /\ crewState = "Running"
    /\ phase = "reasoning"
    /\ step = MaxSteps
    /\ RaiseFromTask("ReasoningExhausted")
    /\ UNCHANGED <<env, file0, file, report, printed>>
    /\ UNCHANGED <<taskIndex, step, outputs, context, execLog, llmCalls, toolCalls>>

\* kickoff() returns the last task's result; run_market_research returns it
KickoffReturn ==
    /\ pc = "kickoff"
    /\ crewState = "Running"
    /\ phase = "idle"
    /\ Len(outputs) = Len(tasks)
    /\ crewState' = "Completed"
    /\ report' = outputs[Len(outputs)].text
    /\ pc' = "save"
    /\ UNCHANGED <<env, file0, file, exc, printed>>
    /\ UNCHANGED <<taskIndex, phase, step, outputs, context, execLog,
                   llmCalls, toolCalls, failedAt>>

\* content of the file right after open(filename, OpenMode)
Opened == IF OpenMode = "w" \/ ~file.exists THEN <<>> ELSE file.data

\* save_report(report): open, write str(report), close
SaveReport ==
    /\ pc = "save"
    /\ \/ \* open() raises: nothing is touched
          /\ exc' = "OSError"
          /\ pc' = "except"
          /\ UNCHANGED file
       \/ \* write() or close() raises after open() created/truncated the file
          \E p \in Prefixes(Str(report)) :
            /\ file' = [exists |-> TRUE, data |-> Opened \o p]
            /\ exc' = "OSError"
            /\ pc' = "except"
       \/ \* success
          /\ file' = [exists |-> TRUE, data |-> Opened \o Str(report)]
          /\ pc' = "done"
          /\ UNCHANGED exc
    /\ UNCHANGED <<env, file0, report, printed>>
    /\ UNCHANGED crewVars

\* main(): an except clause that runs the research once more before reporting
OnExceptionRetry ==
    /\ pc = "except"
    /\ printed' = exc
    /\ IF printed = "none"
         THEN /\ pc' = "kickoff"
              /\ crewState' = "Pending"
              /\ outputs' = <<>>
              /\ taskIndex' = 0
         ELSE /\ pc' = "failed"
              /\ UNCHANGED <<crewState, outputs, taskIndex>>
    /\ UNCHANGED <<env, file0, file, report, exc>>
    /\ UNCHANGED <<phase, step, context, execLog, llmCalls, toolCalls, failedAt>>

\* main(): except Exception as e: print kind and message, fall off the end
OnException ==
    /\ pc = "except"
    /\ printed' = exc
    /\ pc' = "failed"
    /\ UNCHANGED <<env, file0, file, report, exc>>
    /\ UNCHANGED crewVars

Next ==
    \/ Validate
    \/ Kickoff
    \/ StartTask
    \/ ReasonStep
    \/ ToolStep
    \/ Exhausted
    \/ KickoffReturn
    \/ SaveReport
    \/ OnException

Spec == Init /\ [][Next]_vars

\* one thread of control; every external call returns or times out
FairSpec == Spec /\ WF_vars(Next)

-----------------------------------------------------------------------------
(* Properties *)

\* the result task k produced (tasks produce at most one result)
ResultOf(k) == (CHOOSE i \in 1..Len(outputs) : outputs[i].task = k)

HasResult(k) == \E i \in 1..Len(outputs) : outputs[i].task = k

\* C1: tasks are started in list order, and the context a started task was
\* handed is exactly the results of the tasks before it in the list, in that
\* order: every predecessor had completed, and nothing of the task itself or
\* of a later task is in it.
C1_OrderedContext ==
    \A i \in 1..Len(execLog) :
        LET k == execLog[i].task IN
        /\ k = i
        /\ Len(context[k]) = k - 1
        /\ \A j \in 1..(k - 1) :
            /\ j <= Len(outputs)
            /\ outputs[j].task = j
            /\ context[k][j] = outputs[j].text

\* the second task is running and sees the first task's (non-empty) result
C1_Witness ==
    /\ taskIndex = 2
    /\ phase = "reasoning"
    /\ Len(execLog) = 2
    /\ context[2] = << <<"a", "b">> >>
    /\ Len(outputs) = 1

\* C3 (as claimed): whenever the run has ended in failure, or a failure is on
\* its way to the except clause, the report file is as the run found it.
C3_NoArtifactOnFailure ==
    pc \in {"except", "failed"} => file = file0

\* C4: with a required variable unset, the run never starts: no model call,
\* no tool call, no task execution, and the report file is untouched.
C4_NoRunWithoutConfiguration ==
    (\E v \in {"OPENAI_API_KEY", "SERPER_API_KEY"} : env[v] = "unset")
        => /\ llmCalls = 0
           /\ toolCalls = 0
           /\ execLog = <<>>
           /\ crewState = "Pending"
           /\ file = file0
           /\ pc \in {"validate", "missing"}

\* only the search credential is absent and main() has returned
C4_Witness ==
    /\ pc = "missing"
    /\ env["OPENAI_API_KEY"] = "set"
    /\ env["SERPER_API_KEY"] = "unset"

\* C5: a completed pipeline returned the last task's result, and once the
\* run has finished the report file holds exactly that result, whatever it
\* held before.
C5_ReportIsLastResult ==
    /\ crewState = "Completed" =>
        /\ Len(outputs) = Len(tasks)
        /\ HasResult(Len(tasks))
        /\ report = outputs[ResultOf(Len(tasks))].text
    /\ pc = "done" =>
        /\ crewState = "Completed"
        /\ file = [exists |-> TRUE, data |-> report]

\* a finished run that replaced other content, with distinct task results
C5_Witness ==
    /\ pc = "done"
    /\ file0.exists
    /\ file0.data # <<>>
    /\ file0.data # report
    /\ report # <<>>
    /\ outputs[1].text # report

Ended == crewState \in {"Completed", "Failed"}

\* C10: a running pipeline eventually ends; it ends Completed (every task has
\* its result, none failed) or Failed (one task index, one cause), never
\* both; and once ended, no task is executed and no model or tool call made.
C10_Terminates ==
    /\ (crewState = "Running") ~> Ended
    /\ [](crewState = "Completed" =>
            /\ failedAt = 0
            /\ \A k \in 1..Len(tasks) : HasResult(k))
    /\ [](crewState = "Failed" =>
            /\ failedAt \in 1..Len(tasks)
            /\ ~HasResult(failedAt)
            /\ exc # "none")
    /\ [][Ended => /\ crewState' = crewState
                   /\ UNCHANGED <<execLog, llmCalls, toolCalls, outputs, failedAt>>]_vars

\* the run failed in its second task and the failure was reported
C10_Witness ==
    /\ pc = "failed"
    /\ crewState = "Failed"
    /\ failedAt = 2
    /\ llmCalls > 1

====
